---- MODULE Spec2Model ----
\* A model of fast-ai (src/src/fastai.ts): the OpenAI client object, the
\* tool-calling conversation loop OpenAI.chat, generateText, generateObject,
\* the base-URL setter, and the streaming reader OpenAI.stream.
EXTENDS Integers, Sequences, FiniteSets, TLC

\* ------------------------------------------------------------------ bounds
\* requests one invocation may send
MaxRequests == 2
\* tool calls one response may carry
MaxCalls == 2
\* characters in a caller-supplied base URL
MaxURLLen == 3
\* frames in a streamed response body
MaxFrames == 3
\* bytes in a chunk that is not the whole rest of the body
MaxChunk == 3
\* frames in a streamed response body where the requests fail
FailFrames == 1
\* assignments of the caller to the client's fields messages and tools
MaxAssignments == 2

\* ------------------------------------------------------------- JS values
\* JavaScript undefined / null in a string-valued position
NULL == "<undefined>"

\* the largest and the smallest of a non-empty set of positions
Last(S) == CHOOSE i \in S : \A j \in S : j <= i
First(S) == CHOOSE i \in S : \A j \in S : i <= j

\* the two invocations (callers of generateText / generateObject)
Procs == {1, 2}

\* message arrays the callers own (options.messages is a reference to one)
ArrIds == {"m1", "m2"}

\* the client the callers share, and the client createOpenAI() makes for an
\* invocation that passes no options.openai
Shared == "shared"
OwnClient(p) == IF p = 1 THEN "own1" ELSE "own2"
ClientIds == {Shared, "own1", "own2"}

\* ChatMessage; tool_calls is wrapped so that an absent field differs from []
NoCalls == [present |-> FALSE, calls |-> <<>>]
SomeCalls(cs) == [present |-> TRUE, calls |-> cs]
ChatMessage(role, content, tool_calls, tool_call_id) ==
    [role |-> role, content |-> content, tool_calls |-> tool_calls,
     tool_call_id |-> tool_call_id]

UserMsg(text) == ChatMessage("user", text, NoCalls, NULL)

\* the preamble generateObject pushes when no system message is present
SystemPreamble ==
    ChatMessage("system", "You are a structured output assistant.", NoCalls, NULL)

\* ------------------------------------------------------ JSON and schemas
RawParis == "{\"city\":\"Paris\"}"
RawFive == "{\"city\": 5}"
RawText == "hello"
RawEmpty == ""

JSONString(s) == [type |-> "string", val |-> s]
JSONNumber(s) == [type |-> "number", val |-> s]

\* JSON.parse: a value, or a SyntaxError
JSONparse(raw) ==
    CASE raw = RawParis -> [ok |-> TRUE, value |-> [city |-> JSONString("Paris")]]
      [] raw = RawFive -> [ok |-> TRUE, value |-> [city |-> JSONNumber("5")]]
      [] OTHER -> [ok |-> FALSE, value |-> NULL]

\* z.object({city: z.string()}).parse: the value, or a ZodError
CitySchema == "z.object({city: z.string()})"
SchemaParse(schema, value) ==
    IF schema = CitySchema /\ value.city.type = "string"
    THEN [ok |-> TRUE, value |-> [city |-> value.city]]
    ELSE [ok |-> FALSE, value |-> NULL]

\* ------------------------------------------------------------------ tools
Tool(name, out) == [name |-> name, parameters |-> CitySchema, out |-> out]
WeatherTool == Tool("get_weather", "sunny")
TimeTool == Tool("get_time", "noon")
SubmitObjectTool == Tool("submit_object", "Object submitted.")
\* a second tool declared under the name get_weather
RainTool == Tool("get_weather", "rainy")

\* the tools arrays a caller may pass to generateText
ToolLists ==
    {<<>>, <<WeatherTool>>, <<WeatherTool, TimeTool>>, <<WeatherTool, RainTool>>}

\* tools.find(t => t.name === name): the first match, or undefined
RECURSIVE FindFrom(_, _, _)
FindFrom(tools, name, i) ==
    IF i > Len(tools) THEN [found |-> FALSE, tool |-> NULL]
    ELSE IF tools[i].name = name THEN [found |-> TRUE, tool |-> tools[i]]
    ELSE FindFrom(tools, name, i + 1)
FindToolIgnoringName(tools, name) ==
    IF Len(tools) = 0 THEN [found |-> FALSE, tool |-> NULL]
    ELSE [found |-> TRUE, tool |-> tools[1]]
FindTool(tools, name) == FindFrom(tools, name, 1)

\* generateToolsJsonSchema: one descriptor per tool, [] for no tools
generateToolsJsonSchema(tools) ==
    [i \in 1..Len(tools) |->
        [type |-> "function", name |-> tools[i].name,
         parameters |-> tools[i].parameters]]

\* ------------------------------------------------------------- transport
CallIds == <<"call_a", "call_b", "call_c">>
CallNames == {"get_weather", "get_time", "submit_object"}
CallArgs == {RawParis, RawFive, RawText}
ToolCall(k, name, arguments) ==
    [id |-> CallIds[k], name |-> name, arguments |-> arguments]

\* the batches of 1..n calls, each call a <<name, arguments>> pair
BatchesOf(pairs, n) ==
    UNION {{[k \in 1..len |-> ToolCall(k, f[k][1], f[k][2])] :
                f \in [1..len -> pairs]} : len \in 1..n}
Batches(names, args, n) == BatchesOf(names \X args, n)

\* the calls a batch may carry: get_weather with any arguments, get_time
\* and submit_object with valid ones
CallPairs ==
    {c \in CallNames \X CallArgs :
        \/ c[1] = "get_weather"
        \/ c[1] = "get_time" /\ c[2] = RawParis
        \/ c[1] = "submit_object" /\ c[2] = RawParis}

Reject == [kind |-> "reject"]
NoMessage == [kind |-> "nomessage"]
Message(content, tool_calls) ==
    [kind |-> "message",
     message |-> ChatMessage("assistant", content, tool_calls, NULL)]

\* what the server may answer to one request
FullResponses ==
    {Reject, NoMessage}
    \cup {Message(c, NoCalls) : c \in {NULL, RawEmpty, RawText, RawParis, RawFive}}
    \cup {Message(RawText, SomeCalls(<<>>))}
    \cup {Message(RawParis, SomeCalls(<<ToolCall(1, "get_weather", RawParis)>>))}
    \cup {Message(NULL, SomeCalls(b)) : b \in BatchesOf(CallPairs, MaxCalls)}
    \cup {Message(NULL, SomeCalls(<<ToolCall(1, "submit_object", RawFive)>>))}

\* a smaller repertoire for the runs with two invocations
SmallResponses ==
    {Message(RawText, NoCalls)}
    \cup {Message(NULL, SomeCalls(b)) :
            b \in Batches({"get_weather"}, {RawParis}, 1)}

\* the small repertoire and the two failures of a request
FailingResponses == SmallResponses \cup {Reject, NoMessage}

Responses(m) ==
    CASE m = "full" -> FullResponses
      [] m = "failing" -> FailingResponses
      [] OTHER -> SmallResponses

\* a response that carries tool calls, one that carries a message without
HasCalls(resp) ==
    /\ resp.kind = "message"
    /\ resp.message.tool_calls.present
    /\ Len(resp.message.tool_calls.calls) > 0
ToolFree(resp) == resp.kind = "message" /\ ~HasCalls(resp)
CallsOf(resp) == resp.message.tool_calls.calls

\* generateToolsJsonSchema of the class that has stream
\* (src/unnamed/part_004 410-421): null for no tools
generateToolsJsonSchemaOrNull(tools) ==
    IF Len(tools) = 0 THEN [null |-> TRUE, list |-> <<>>]
    ELSE [null |-> FALSE, list |-> generateToolsJsonSchema(tools)]

\* ------------------------------------------------------------------ state
VARIABLES
    sm,       \* the stream() call: position, body, buffer, onMsg calls, lock
    mock,     \* the repertoire of the transport ("full" or "small")
    env,      \* process.env: OPENAI_BASE_URL, OPENAI_MODEL, OPENAI_API_KEY
    cl,       \* the OpenAI objects: messages (a reference), tools, onToolCall
    heap,     \* the contents of the callers' message arrays
    inv,      \* the invocations: position, options, locals, outcome
    trace     \* per invocation: what it sent, notified, executed, appended

vars == <<sm, mock, env, cl, heap, inv, trace>>

\* new OpenAI(): no field initialised (src/src/fastai.ts 44-55). hasStream
\* tells the class of the object: the one of src/src/fastai.ts, or the one
\* of src/unnamed/part_004 (238-392), which has stream() and whose requests
\* carry `tools: null` for no tools. assigned counts the assignments the
\* caller has made to the public fields messages and tools.
NewOpenAI ==
    [given |-> <<>>, baseURL |-> <<>>, endpoint |-> <<>>, apiKey |-> NULL,
     model |-> NULL, messages |-> NULL, tools |-> <<>>, onToolCall |-> NULL,
     constructed |-> FALSE, hasStream |-> FALSE, assigned |-> 0]

\* A URL is a sequence of characters; the program's own literals are kept
\* as one element each (none of them ends in a slash).
Slash == "/"
URLChars == {"h", Slash}
DefaultBaseURL == <<"https://api.openai.com/v1">>
ChatCompletionsPath == <<"/chat/completions">>

\* the caller-supplied base URLs: none (empty), or "h" and what follows it
RECURSIVE URLsOfLen(_)
URLsOfLen(n) ==
    IF n = 0 THEN {<<>>}
    ELSE IF n = 1 THEN {<<"h">>}
    ELSE {Append(u, c) : u \in URLsOfLen(n - 1), c \in URLChars}
URLs == UNION {URLsOfLen(n) : n \in 0..MaxURLLen}

\* baseURL.replace(/\/$/, ''): without the g flag, one slash at the end
StripTrailingSlashNever(url) == url
StripTrailingSlash(url) ==
    IF Len(url) > 0 /\ url[Len(url)] = Slash
    THEN SubSeq(url, 1, Len(url) - 1)
    ELSE url

\* set baseURL(baseURL) (49-52)
SetBaseURL(client, url) ==
    [client EXCEPT !.given = url,
                   !.baseURL = StripTrailingSlash(url),
                   !.endpoint = StripTrailingSlash(url) \o ChatCompletionsPath]

\* a || b: a unless it is the empty string (or undefined)
OrElse(a, b) == IF a # "" THEN a ELSE b
OrElseURL(a, b) == IF a # <<>> THEN a ELSE b

NoEnv == [OPENAI_BASE_URL |-> <<>>, OPENAI_MODEL |-> "", OPENAI_API_KEY |-> ""]
NoClientOptions == [baseURL |-> <<>>, model |-> "", apiKey |-> ""]

\* createOpenAI(options) (115-121)
createOpenAI(options, environment) ==
    [SetBaseURL(NewOpenAI,
        OrElseURL(options.baseURL,
                  OrElseURL(environment.OPENAI_BASE_URL, DefaultBaseURL)))
     EXCEPT !.model = OrElse(options.model, OrElse(environment.OPENAI_MODEL, "")),
            !.apiKey = OrElse(options.apiKey,
                              OrElse(environment.OPENAI_API_KEY, "")),
            !.constructed = TRUE]

NoOptions ==
    [openai |-> NULL, messages |-> NULL, tools |-> <<>>, onToolCall |-> NULL,
     schema |-> NULL]

IdleInv ==
    [pc |-> "idle", kind |-> NULL, options |-> NoOptions, this |-> NULL,
     generateObject |-> FALSE, calls |-> <<>>, k |-> 0, tool |-> NULL,
     nreq |-> 0, res |-> NULL, text |-> NULL, object |-> NULL, error |-> NULL,
     errorTool |-> NULL, before |-> <<>>, after |-> FALSE, historyLen |-> 0,
     observer |-> NULL, lookup |-> <<>>]

InitHeap == [a \in ArrIds |-> <<UserMsg(IF a = "m1" THEN "q1" ELSE "q2")>>]

\* no stream() call has been made
IdleStream ==
    [pc |-> "idle", frames |-> <<>>, tail |-> <<>>, throwAt |-> 0,
     rest |-> <<>>, buffer |-> <<>>, log |-> <<>>,
     locked |-> FALSE, acquired |-> FALSE, request |-> <<>>, error |-> NULL,
     prompt |-> NULL, fetched |-> NULL]

InitCommon ==
    /\ sm = IdleStream
    /\ env = NoEnv
    /\ cl = [c \in ClientIds |->
               IF c = Shared
               THEN createOpenAI([baseURL |-> <<"h">>, model |-> "gpt-4",
                                  apiKey |-> "test-key"], NoEnv)
               ELSE NewOpenAI]
    /\ heap = InitHeap
    /\ inv = [p \in Procs |-> IdleInv]
    /\ trace = [p \in Procs |-> <<>>]

\* ---------------------------------------------------------- OpenAI.chat
\* The steps below take and return a record st of the values the handler
\* is building: st.cl, st.heap, st.iv (this invocation), st.tr (its trace).

\* this.messages.push(m): the array this.messages refers to at that moment
PushFront(st, m) ==
    LET a == st.cl[st.iv.this].messages IN
    [st EXCEPT !.heap[a] = <<m>> \o @,
               !.tr = Append(@, [type |-> "push", arr |-> a, msg |-> m])]
Push(st, m) ==
    LET a == st.cl[st.iv.this].messages IN
    [st EXCEPT !.heap[a] = Append(@, m),
               !.tr = Append(@, [type |-> "push", arr |-> a, msg |-> m])]

\* fetch(this.endpoint, {body: JSON.stringify({model, messages, tools})})
SendRequest(st) ==
    LET c == st.cl[st.iv.this] IN
    [st EXCEPT !.iv.pc = "fetch",
               !.iv.nreq = @ + 1,
               !.tr = Append(@, [type |-> "request", arr |-> c.messages,
                                 endpoint |-> c.endpoint,
                                 apiKey |-> c.apiKey, model |-> c.model,
                                 messages |-> IF c.messages = NULL THEN NULL
                                              ELSE st.heap[c.messages],
                                 tools |-> IF c.hasStream
                                           THEN generateToolsJsonSchemaOrNull(
                                                    c.tools)
                                           ELSE generateToolsJsonSchema(
                                                    c.tools)])]

\* the length of the history the loop works on (this.messages)
HistoryLen(st) ==
    IF st.cl[st.iv.this].messages = NULL THEN 0
    ELSE Len(st.heap[st.cl[st.iv.this].messages])

Throw(st, error, name) ==
    [st EXCEPT !.iv.pc = "failed", !.iv.error = error, !.iv.errorTool = name,
               !.iv.historyLen = HistoryLen(st)]

\* generateObject after `await openai.chat(undefined, true)` (182-195)
ParseObject(st0, res) ==
    LET st == [st0 EXCEPT !.iv.res = NULL] IN
    IF res # ""
    THEN LET obj == JSONparse(res)
             parsed == SchemaParse(st.iv.options.schema, obj.value)
         IN IF obj.ok /\ parsed.ok
            THEN [st EXCEPT !.iv.pc = "returned", !.iv.object = parsed.value,
                            !.iv.historyLen = HistoryLen(st)]
            ELSE Throw(st, "Failed to parse generated object", NULL)
    ELSE Throw(st, "Model did not return a structured object", NULL)

\* chat returns value (84, 99): to the caller of chat or of generateText
\* (145), whose promise it resolves, or to generateObject, whose code after
\* `await openai.chat(undefined, true)` (182) runs in a later step
ReturnRetrying(st, value) ==
    IF st.iv.kind = "generateObject"
    THEN IF /\ value # ""
            /\ JSONparse(value).ok
            /\ SchemaParse(st.iv.options.schema, JSONparse(value).value).ok
         THEN [st EXCEPT !.iv.pc = "resolved", !.iv.res = value]
         ELSE SendRequest(st)
    ELSE [st EXCEPT !.iv.pc = "returned", !.iv.text = value,
                    !.iv.historyLen = HistoryLen(st)]
Return(st, value) ==
    IF st.iv.kind = "generateObject"
    THEN [st EXCEPT !.iv.pc = "resolved", !.iv.res = value]
    ELSE [st EXCEPT !.iv.pc = "returned", !.iv.text = value,
                    !.iv.historyLen = HistoryLen(st)]

\* throw new Error(`Tool ${name} not found`) (93-96); iv.k keeps the
\* position of the loop and iv.lookup the value of this.tools that find read
NotFound(st, k) ==
    [Throw(st, "Tool not found", st.iv.calls[k].name)
        EXCEPT !.iv.k = k, !.iv.lookup = st.cl[st.iv.this].tools]

\* one pass of `for (const call of tool_calls)` up to its await (92-103)
ProcessCallUnvalidated(st, k) ==
    LET call == st.iv.calls[k]
        f == FindTool(st.cl[st.iv.this].tools, call.name)
    IN IF ~f.found THEN NotFound(st, k)
       ELSE IF st.iv.generateObject THEN Return(st, call.arguments)
       ELSE [st EXCEPT !.iv.pc = "execute", !.iv.k = k, !.iv.tool = f.tool,
                       !.tr = Append(@, [type |-> "execute", tool |-> f.tool,
                                         args |-> NULL, id |-> call.id])]
ProcessCallAnswering(st, k) ==
    LET call == st.iv.calls[k]
        f == FindTool(st.cl[st.iv.this].tools, call.name)
        json == JSONparse(call.arguments)
        args == SchemaParse(f.tool.parameters, json.value)
    IN IF ~f.found THEN NotFound(st, k)
       ELSE IF st.iv.generateObject
       THEN Return(Push(st, ChatMessage("tool", call.arguments, NoCalls,
                                        call.id)),
                   call.arguments)
       ELSE IF ~json.ok THEN Throw(st, "SyntaxError", NULL)
       ELSE IF ~args.ok THEN Throw(st, "ZodError", NULL)
       ELSE [st EXCEPT !.iv.pc = "execute", !.iv.k = k, !.iv.tool = f.tool,
                       !.tr = Append(@, [type |-> "execute", tool |-> f.tool,
                                         args |-> args.value, id |-> call.id])]
ProcessCall(st, k) ==
    LET call == st.iv.calls[k]
        f == FindTool(st.cl[st.iv.this].tools, call.name)
        json == JSONparse(call.arguments)
        args == SchemaParse(f.tool.parameters, json.value)
    IN IF ~f.found THEN NotFound(st, k)
       ELSE IF st.iv.generateObject THEN Return(st, call.arguments)
       ELSE IF ~json.ok THEN Throw(st, "SyntaxError", NULL)
       ELSE IF ~args.ok THEN Throw(st, "ZodError", NULL)
       ELSE [st EXCEPT !.iv.pc = "execute", !.iv.k = k, !.iv.tool = f.tool,
                       !.tr = Append(@, [type |-> "execute", tool |-> f.tool,
                                         args |-> args.value, id |-> call.id])]

\* tool_calls.forEach(call => this.onToolCall?.(call.function.name)) (86-90);
\* iv.observer keeps the value of this.onToolCall that was read
Notify(st, calls) ==
    LET obs == st.cl[st.iv.this].onToolCall IN
    IF obs = NULL THEN [st EXCEPT !.iv.observer = NULL]
    ELSE [st EXCEPT !.iv.observer = obs,
                    !.tr = @ \o [i \in 1..Len(calls) |->
                [type |-> "notify", observer |-> obs, name |-> calls[i].name]]]

\* assistant.content || ''
ContentOrNull(content) == content
ContentOrEmptyDropped(content) == ""
ContentOrEmpty(content) == IF content = NULL THEN "" ELSE content

\* chat once the response has a message (79-103); this.messages.push on
\* a client whose messages were never assigned is a TypeError
OnAssistant(st, assistant) ==
    IF st.cl[st.iv.this].messages = NULL THEN Throw(st, "TypeError", NULL)
    ELSE LET pushed == Push(st, assistant)
             tool_calls == assistant.tool_calls
         IN IF ~tool_calls.present \/ Len(tool_calls.calls) = 0
            THEN Return(pushed, ContentOrEmpty(assistant.content))
            ELSE ProcessCall(
                   Notify([pushed EXCEPT !.iv.calls = tool_calls.calls],
                          tool_calls.calls), 1)

\* the continuation of `await fetch(...).then(r => r.json())` (72-103)
OnResponseRetries(st, resp) ==
    IF resp.kind = "reject" THEN Throw(st, "fetch rejected", NULL)
    ELSE IF resp.kind = "nomessage" THEN SendRequest(st)
    ELSE OnAssistant(st, resp.message)
OnResponseRetriesRejected(st, resp) ==
    IF resp.kind = "reject" THEN SendRequest(st)
    ELSE IF resp.kind = "nomessage"
    THEN Throw(st, "No assistant message returned", NULL)
    ELSE OnAssistant(st, resp.message)
OnResponse(st, resp) ==
    IF resp.kind = "reject" THEN Throw(st, "fetch rejected", NULL)
    ELSE IF resp.kind = "nomessage"
    THEN Throw(st, "No assistant message returned", NULL)
    ELSE OnAssistant(st, resp.message)

\* the continuation of `await tool.execute(args)` (103-110, then 60-72)
OnExecutedSkipsRest(st) ==
    SendRequest(Push(st, ChatMessage("tool", st.iv.tool.out, NoCalls,
                                     st.iv.calls[st.iv.k].id)))
OnExecutedFirstId(st) ==
    LET pushed == Push(st, ChatMessage("tool", st.iv.tool.out, NoCalls,
                                       st.iv.calls[1].id))
    IN IF st.iv.k < Len(st.iv.calls)
       THEN ProcessCall(pushed, st.iv.k + 1)
       ELSE SendRequest(pushed)
OnExecutedUnanswered(st) ==
    IF st.iv.k < Len(st.iv.calls)
    THEN ProcessCall(st, st.iv.k + 1)
    ELSE SendRequest(Push(st, ChatMessage("tool", st.iv.tool.out, NoCalls,
                                          st.iv.calls[st.iv.k].id)))
OnExecutedStops(st) ==
    LET pushed == Push(st, ChatMessage("tool", st.iv.tool.out, NoCalls,
                                       st.iv.calls[st.iv.k].id))
    IN IF st.iv.k < Len(st.iv.calls)
       THEN ProcessCall(pushed, st.iv.k + 1)
       ELSE Return(pushed, "")
OnExecuted(st) ==
    LET call == st.iv.calls[st.iv.k]
        pushed == Push(st, ChatMessage("tool", st.iv.tool.out, NoCalls, call.id))
    IN IF st.iv.k < Len(st.iv.calls)
       THEN ProcessCall(pushed, st.iv.k + 1)
       ELSE SendRequest(pushed)

\* ------------------------------------------------------------- actions
State(p) == [cl |-> cl, heap |-> heap, iv |-> inv[p], tr |-> trace[p]]

Commit(p, st) ==
    /\ st.iv.nreq <= MaxRequests
    /\ cl' = st.cl
    /\ heap' = st.heap
    /\ inv' = [inv EXCEPT ![p] = st.iv]
    /\ trace' = [trace EXCEPT ![p] = st.tr]
    /\ UNCHANGED <<sm, mock, env>>

Finished(p) == inv[p].pc \in {"returned", "failed"}

\* options.openai || createOpenAI()
ClientOf(p, options) ==
    IF options.openai = NULL THEN OwnClient(p) ELSE options.openai

\* `options.openai || createOpenAI()` (142, 161), and what the invocation
\* remembers of the moment it was called
CalledWithoutFlag(p, kind, options, st) ==
    [st EXCEPT !.cl[OwnClient(p)] =
                    IF options.openai = NULL
                    THEN [createOpenAI(NoClientOptions, env)
                          EXCEPT !.hasStream =
                                     st.cl[OwnClient(p)].hasStream]
                    ELSE @,
               !.iv.kind = kind, !.iv.options = options,
               !.iv.this = ClientOf(p, options),
               !.iv.generateObject = FALSE,
               !.iv.before = heap[options.messages],
               !.iv.after = \A q \in Procs \ {p} : Finished(q)]
Called(p, kind, options, st) ==
    [st EXCEPT !.cl[OwnClient(p)] =
                    IF options.openai = NULL
                    THEN [createOpenAI(NoClientOptions, env)
                          EXCEPT !.hasStream =
                                     st.cl[OwnClient(p)].hasStream]
                    ELSE @,
               !.iv.kind = kind, !.iv.options = options,
               !.iv.this = ClientOf(p, options),
               !.iv.generateObject = (kind = "generateObject"),
               !.iv.before = heap[options.messages],
               !.iv.after = \A q \in Procs \ {p} : Finished(q)]

TextOptions ==
    [openai : {NULL, Shared}, messages : ArrIds, tools : ToolLists,
     onToolCall : {NULL, "optionObserver"}, schema : {NULL}]

ObjectOptions ==
    [openai : {NULL, Shared}, messages : ArrIds, tools : {<<>>},
     onToolCall : {NULL}, schema : {CitySchema}]

\* generateText (141-146), up to the first await in chat
generateText(p, options) ==
    /\ inv[p].pc = "idle"
    /\ LET c == ClientOf(p, options)
           st == Called(p, "generateText", options, State(p))
       IN Commit(p, SendRequest(
            [st EXCEPT !.cl[c].messages = options.messages,
                       !.cl[c].tools = options.tools]))

\* generateObject (158-182), up to the first await in chat
generateObjectAlwaysPreamble(p, options) ==
    /\ inv[p].pc = "idle"
    /\ LET c == ClientOf(p, options)
           st == Called(p, "generateObject", options, State(p))
           set == [st EXCEPT !.cl[c].messages = options.messages]
           pre == [set EXCEPT !.heap[options.messages] =
                                   Append(@, SystemPreamble)]
       IN Commit(p, SendRequest(
            [pre EXCEPT !.cl[c].tools = <<SubmitObjectTool>>]))
generateObject(p, options) ==
    /\ inv[p].pc = "idle"
    /\ LET c == ClientOf(p, options)
           st == Called(p, "generateObject", options, State(p))
           hasSystem == \E i \in 1..Len(heap[options.messages]) :
                           heap[options.messages][i].role = "system"
           set == [st EXCEPT !.cl[c].messages = options.messages]
           pre == IF hasSystem THEN set
                  ELSE [set EXCEPT !.heap[options.messages] =
                                        Append(@, SystemPreamble)]
       IN Commit(p, SendRequest(
            [pre EXCEPT !.cl[c].tools = <<SubmitObjectTool>>]))

\* the response to the pending request arrives
Fetched(p) ==
    /\ inv[p].pc = "fetch"
    /\ \E resp \in Responses(mock) :
          Commit(p, OnResponse(
            [State(p) EXCEPT !.tr = Append(@, [type |-> "response",
                                               resp |-> resp])], resp))

\* generateObject goes on after `await openai.chat(undefined, true)` (182-195)
Resumed(p) ==
    /\ inv[p].pc = "resolved"
    /\ Commit(p, ParseObject(State(p), inv[p].res))

\* openai.chat(msg, flag) called on the shared client, up to its first
\* await (56-72); msg may be undefined or empty, flag is generateObject
Messages == {NULL, "", "hi"}
Chat(p, msg, flag) ==
    /\ inv[p].pc = "idle"
    /\ LET a == cl[Shared].messages
           st == [State(p) EXCEPT
                    !.iv.kind = "chat",
                    !.iv.options = [NoOptions EXCEPT !.openai = Shared,
                                                     !.messages = a],
                    !.iv.this = Shared,
                    !.iv.generateObject = flag,
                    !.iv.before = IF a = NULL THEN <<>> ELSE heap[a],
                    !.iv.after = \A q \in Procs \ {p} : Finished(q)]
       IN IF msg \in {NULL, ""} THEN Commit(p, SendRequest(st))
          ELSE IF a = NULL THEN Commit(p, Throw(st, "TypeError", NULL))
          ELSE Commit(p, SendRequest(Push(st, UserMsg(msg))))

\* the caller assigns the public field openai.messages (53), at any
\* moment: before, between or during the calls
SetMessages(a) ==
    /\ cl[Shared].assigned < MaxAssignments
    /\ cl' = [cl EXCEPT ![Shared].messages = a, ![Shared].assigned = @ + 1]
    /\ UNCHANGED <<sm, mock, env, heap, inv, trace>>

\* the caller assigns the public field openai.tools (54), at any moment
SetTools(tools) ==
    /\ cl[Shared].assigned < MaxAssignments
    /\ cl' = [cl EXCEPT ![Shared].tools = tools, ![Shared].assigned = @ + 1]
    /\ UNCHANGED <<sm, mock, env, heap, inv, trace>>

\* the response arrives from a server that stops asking for tools: its
\* answer to the last request the bound allows carries no tool call
FetchedEventually(p) ==
    /\ inv[p].pc = "fetch"
    /\ \E resp \in Responses(mock) :
          /\ inv[p].nreq = MaxRequests => ~HasCalls(resp)
          /\ Commit(p, OnResponse(
                [State(p) EXCEPT !.tr = Append(@, [type |-> "response",
                                                   resp |-> resp])], resp))

\* the pending tool.execute resolves
Executed(p) ==
    /\ inv[p].pc = "execute"
    /\ Commit(p, OnExecuted(State(p)))

\* the pending tool.execute rejects: the error leaves chat (103)
ExecuteRejected(p) ==
    /\ inv[p].pc = "execute"
    /\ Commit(p, Throw(State(p), "execute rejected", inv[p].tool.name))

\* the caller assigns the public field openai.onToolCall (55), to an
\* observer or back to undefined
SetOnToolCall(f) ==
    /\ cl' = [cl EXCEPT ![Shared].onToolCall = f]
    /\ UNCHANGED <<sm, mock, env, heap, inv, trace>>

\* -------------------------------------------------------- OpenAI.stream
\* (src/unnamed/part_004 312-392). A body is a sequence of bytes; the
\* literals of the wire format are one element each, and Byte1, Byte2 are
\* the two bytes of one character outside ASCII.
DataPrefix == "data: "
DoneToken == "[DONE]"
JsonOpen == "{\"choices\":[{\"delta\":{\"content\":\""
JsonClose == "\"}}]}"
LF == "\n"
Space == " "
Byte1 == "0xC3"
Byte2 == "0xA9"
EAcute == "U+00E9"
Replacement == "U+FFFD"
ContentChars == {"a", EAcute, Replacement}

\* the UTF-8 bytes of a text
RECURSIVE Encode(_)
Encode(text) ==
    IF text = <<>> THEN <<>>
    ELSE (IF Head(text) = EAcute THEN <<Byte1, Byte2>> ELSE <<Head(text)>>)
         \o Encode(Tail(text))

\* decoder.decode(value), without {stream: true}: every call decodes its
\* chunk on its own, so a character cut by the chunk boundary comes out as
\* replacement characters (359)
RECURSIVE DecodeFrom(_, _)
DecodeFrom(bytes, i) ==
    IF i > Len(bytes) THEN <<>>
    ELSE IF bytes[i] = Byte1
    THEN IF i < Len(bytes) /\ bytes[i + 1] = Byte2
         THEN <<EAcute>> \o DecodeFrom(bytes, i + 2)
         ELSE <<Replacement>> \o DecodeFrom(bytes, i + 1)
    ELSE IF bytes[i] = Byte2
    THEN <<Replacement>> \o DecodeFrom(bytes, i + 1)
    ELSE <<bytes[i]>> \o DecodeFrom(bytes, i + 1)
Decode(bytes) == DecodeFrom(bytes, 1)

\* buffer.split('\n') (363)
RECURSIVE Split(_)
Split(text) ==
    IF \A i \in 1..Len(text) : text[i] # LF THEN <<text>>
    ELSE LET i == First({j \in 1..Len(text) : text[j] = LF}) IN
         <<SubSeq(text, 1, i - 1)>> \o Split(SubSeq(text, i + 1, Len(text)))

\* String.prototype.trim (353)
TrimNothing(text) == text
RECURSIVE Trim(_)
Trim(text) ==
    IF text = <<>> THEN text
    ELSE IF Head(text) \in {Space, LF} THEN Trim(Tail(text))
    ELSE IF text[Len(text)] \in {Space, LF}
    THEN Trim(SubSeq(text, 1, Len(text) - 1))
    ELSE text

\* JSON.parse(dataStr) and data.choices?.[0]?.delta.content (376-380)
ParseDelta(dataStr) ==
    IF /\ Len(dataStr) >= 2
       /\ dataStr[1] = JsonOpen
       /\ dataStr[Len(dataStr)] = JsonClose
       /\ \A i \in 2..(Len(dataStr) - 1) : dataStr[i] \in ContentChars
    THEN [ok |-> TRUE, content |-> SubSeq(dataStr, 2, Len(dataStr) - 1)]
    ELSE [ok |-> FALSE, content |-> <<>>]

\* onMsg(msg, isStop): the call is recorded; the callback throws at its
\* throwAt-th invocation (0: never)
OnMsg(log, msg, isStop, throwAt) ==
    Append(log, [msg |-> msg, isStop |-> isStop,
                 threw |-> (Len(log) + 1 = throwAt)])
Threw(log) == log # <<>> /\ log[Len(log)].threw

\* `for (const line of lines)` (366-387): the onMsg calls made, and how the
\* loop was left: "next" (read on), "return" ([DONE]) or "throw"
RECURSIVE ProcessLines(_, _, _, _)
ProcessLines(lines, i, log, throwAt) ==
    IF i > Len(lines) THEN [log |-> log, exit |-> "next"]
    ELSE LET line == lines[i] IN
      IF ~(Len(line) >= 1 /\ line[1] = DataPrefix)
      THEN ProcessLines(lines, i + 1, log, throwAt)
      ELSE LET dataStr == Tail(line)
               delta == ParseDelta(dataStr)
           IN IF dataStr = <<DoneToken>>
              THEN LET called == OnMsg(log, <<>>, TRUE, throwAt) IN
                   [log |-> called,
                    exit |-> IF Threw(called) THEN "throw" ELSE "return"]
              ELSE IF delta.ok /\ delta.content # <<>>
              THEN ProcessLines(lines, i + 1,
                                OnMsg(log, delta.content, FALSE, throwAt),
                                throwAt)
              ELSE ProcessLines(lines, i + 1, log, throwAt)

\* the frames a body is made of
ContentFrame(content) ==
    <<DataPrefix, JsonOpen>> \o Encode(content) \o <<JsonClose, LF, LF>>
DoneFrame == <<DataPrefix, DoneToken, LF, LF>>
MalformedFrame == <<DataPrefix, JsonOpen, "a", LF, LF>>
FrameKinds == {"a", "e", "empty", "done", "malformed"}
FrameBytes(kind) ==
    CASE kind = "a" -> ContentFrame(<<"a">>)
      [] kind = "e" -> ContentFrame(<<EAcute>>)
      [] kind = "empty" -> ContentFrame(<<>>)
      [] kind = "done" -> DoneFrame
      [] kind = "malformed" -> MalformedFrame
FrameContent(kind) ==
    CASE kind = "a" -> <<"a">>
      [] kind = "e" -> <<EAcute>>
      [] OTHER -> <<>>

RECURSIVE Body(_)
Body(frames) ==
    IF frames = <<>> THEN <<>> ELSE FrameBytes(Head(frames)) \o Body(Tail(frames))

FrameSeqs == UNION {[1..n -> FrameKinds] : n \in 0..MaxFrames}
Tails == {<<>>, <<Space, "a", Space>>}
Prompts == {"", "hi"}

\* stream(prompt, onMsg) up to `await fetch` (312-333)
StreamWithoutPush(prompt, throwAt) ==
    /\ sm.pc = "idle"
    /\ cl[Shared].hasStream
    /\ sm' = [sm EXCEPT !.pc = "fetch", !.throwAt = throwAt,
                        !.prompt = prompt,
                        !.request = <<[endpoint |-> cl[Shared].endpoint,
                             model |-> cl[Shared].model,
                             messages |-> heap[cl[Shared].messages],
                             tools |-> generateToolsJsonSchemaOrNull(
                                           cl[Shared].tools),
                             stream |-> TRUE]>>]
    /\ UNCHANGED <<mock, env, cl, heap, inv, trace>>
Stream(prompt, throwAt) ==
    /\ sm.pc = "idle"
    /\ cl[Shared].hasStream
    /\ LET a == cl[Shared].messages
           history == Append(heap[a], UserMsg(prompt))
       IN /\ heap' = [heap EXCEPT ![a] = history]
          /\ sm' = [sm EXCEPT !.pc = "fetch", !.throwAt = throwAt,
                       !.prompt = prompt,
                       !.request = <<[endpoint |-> cl[Shared].endpoint,
                            model |-> cl[Shared].model,
                            messages |-> history,
                            tools |-> generateToolsJsonSchemaOrNull(
                                          cl[Shared].tools),
                            stream |-> TRUE]>>]
    /\ UNCHANGED <<mock, env, cl, inv, trace>>

\* fetch settles: rejected, or a response with ok and body (335-345)
StreamResponses ==
    {[kind |-> k, frames |-> <<>>, tail |-> <<>>] :
         k \in {"reject", "not ok", "no body"}}
    \cup {[kind |-> "ok", frames |-> f, tail |-> t] :
             f \in FrameSeqs, t \in Tails}

StreamFetchedIgnoringStatus(resp) ==
    /\ sm.pc = "fetch"
    /\ sm' = IF resp.kind = "reject"
             THEN [sm EXCEPT !.pc = "failed", !.error = "fetch rejected",
                             !.fetched = resp.kind]
             ELSE [sm EXCEPT !.pc = "reading", !.frames = resp.frames,
                             !.tail = resp.tail,
                             !.rest = Body(resp.frames) \o resp.tail,
                             !.locked = TRUE, !.acquired = TRUE,
                             !.fetched = resp.kind]
    /\ UNCHANGED <<mock, env, cl, heap, inv, trace>>
StreamFetched(resp) ==
    /\ sm.pc = "fetch"
    /\ sm' = IF resp.kind = "reject"
             THEN [sm EXCEPT !.pc = "failed", !.error = "fetch rejected",
                             !.fetched = resp.kind]
             ELSE IF resp.kind = "not ok"
             THEN [sm EXCEPT !.pc = "failed", !.error = "HTTP error",
                             !.fetched = resp.kind]
             ELSE IF resp.kind = "no body"
             THEN [sm EXCEPT !.pc = "failed", !.error = "Response body is null",
                             !.fetched = resp.kind]
             ELSE [sm EXCEPT !.pc = "reading", !.frames = resp.frames,
                             !.tail = resp.tail,
                             !.rest = Body(resp.frames) \o resp.tail,
                             !.locked = TRUE, !.acquired = TRUE,
                             !.fetched = resp.kind]
    /\ UNCHANGED <<mock, env, cl, heap, inv, trace>>

\* `await reader.read()` yields a chunk of n bytes (349, 359-387)
ReadChunk(n) ==
    /\ sm.pc = "reading"
    /\ n \in 1..Len(sm.rest)
    /\ LET chunk == SubSeq(sm.rest, 1, n)
           lines == Split(sm.buffer \o Decode(chunk))
           done == ProcessLines(SubSeq(lines, 1, Len(lines) - 1), 1, sm.log,
                                sm.throwAt)
       IN sm' = [sm EXCEPT
                   !.rest = SubSeq(sm.rest, n + 1, Len(sm.rest)),
                   !.buffer = lines[Len(lines)],
                   !.log = done.log,
                   !.pc = CASE done.exit = "next" -> "reading"
                            [] done.exit = "return" -> "returned"
                            [] done.exit = "throw" -> "failed",
                   !.error = IF done.exit = "throw" THEN "onMsg threw" ELSE @,
                   !.locked = (done.exit = "next")]
    /\ UNCHANGED <<mock, env, cl, heap, inv, trace>>

\* `await reader.read()` rejects: the error leaves the try block and the
\* finally clause releases the reader; the locals are gone (349, 389-391)
ReadError ==
    /\ sm.pc = "reading"
    /\ sm' = [sm EXCEPT !.pc = "failed", !.error = "read error",
                        !.rest = <<>>, !.buffer = <<>>, !.locked = FALSE]
    /\ UNCHANGED <<mock, env, cl, heap, inv, trace>>

\* `await reader.read()` yields done (351-357, 389-391)
ReadDoneKeepsLockOnThrow ==
    /\ sm.pc = "reading"
    /\ sm.rest = <<>>
    /\ LET text == Trim(sm.buffer)
           called == IF text # <<>> THEN OnMsg(sm.log, text, TRUE, sm.throwAt)
                     ELSE sm.log
           threw == text # <<>> /\ Threw(called)
       IN sm' = [sm EXCEPT !.log = called,
                           !.pc = IF threw THEN "failed" ELSE "returned",
                           !.error = IF threw THEN "onMsg threw" ELSE @,
                           !.locked = threw]
    /\ UNCHANGED <<mock, env, cl, heap, inv, trace>>
ReadDone ==
    /\ sm.pc = "reading"
    /\ sm.rest = <<>>
    /\ LET text == Trim(sm.buffer)
           called == IF text # <<>> THEN OnMsg(sm.log, text, TRUE, sm.throwAt)
                     ELSE sm.log
           threw == text # <<>> /\ Threw(called)
       IN sm' = [sm EXCEPT !.log = called,
                           !.pc = IF threw THEN "failed" ELSE "returned",
                           !.error = IF threw THEN "onMsg threw" ELSE @,
                           !.locked = FALSE]
    /\ UNCHANGED <<mock, env, cl, heap, inv, trace>>

\* ------------------------------------------------------- specifications
\* one invocation against a server that may answer anything
Init == mock = "full" /\ InitCommon

\* the options of the one generateText call: the history "m1", and on the
\* shared client tools of one name
OneCallOptions ==
    {o \in TextOptions :
        /\ o.messages = "m1"
        /\ o.openai = Shared =>
              \A i, j \in 1..Len(o.tools) : o.tools[i].name = o.tools[j].name}

Next ==
    \/ \E f \in {NULL, "clientObserver"} : SetOnToolCall(f)
    \/ \E o \in OneCallOptions : generateText(1, o)
    \/ \E o \in ObjectOptions : o.messages = "m1" /\ generateObject(1, o)
    \/ Fetched(1)
    \/ Resumed(1)
    \/ Executed(1)
    \/ ExecuteRejected(1)

Spec == Init /\ [][Next]_vars

\* two invocations, one after the other or interleaved at their awaits
InitTwo == mock = "small" /\ InitCommon

NextTwo ==
    \/ \E p \in Procs, o \in TextOptions : generateText(p, o)
    \/ \E p \in Procs, o \in ObjectOptions : generateObject(p, o)
    \/ \E p \in Procs : Fetched(p)
    \/ \E p \in Procs : Resumed(p)
    \/ \E p \in Procs : Executed(p)
    \/ \E p \in Procs : ExecuteRejected(p)

SpecTwo == InitTwo /\ [][NextTwo]_vars

\* the client used directly: its fields messages, tools and onToolCall
\* assigned at any moment, and chat called on it, twice or with a
\* generateText, one call after the other or overlapping
InitChat == mock = "small" /\ InitCommon

NextChat ==
    \/ \E o \in TextOptions :
          /\ o.openai = Shared /\ o.onToolCall = NULL /\ o.messages = "m1"
          /\ o.tools = <<WeatherTool>>
          /\ generateText(1, o)
    \/ \E a \in ArrIds : SetMessages(a)
    \/ \E tools \in {<<>>, <<WeatherTool>>} : SetTools(tools)
    \/ \E f \in {NULL, "clientObserver"} : SetOnToolCall(f)
    \/ \E p \in Procs, msg \in Messages, flag \in BOOLEAN : Chat(p, msg, flag)
    \/ \E p \in Procs : Fetched(p)
    \/ \E p \in Procs : Executed(p)
    \/ \E p \in Procs : ExecuteRejected(p)

SpecChat == InitChat /\ [][NextChat]_vars

\* clients being constructed and re-pointed, no conversation running
ClientOptions == [baseURL : URLs, model : {""}, apiKey : {"test-key"}]

InitURL ==
    /\ mock = "small"
    /\ env \in [OPENAI_BASE_URL : {<<>>, <<"e">>}, OPENAI_MODEL : {""},
                OPENAI_API_KEY : {""}]
    /\ cl = [c \in ClientIds |-> NewOpenAI]
    /\ heap = InitHeap
    /\ inv = [p \in Procs |-> IdleInv]
    /\ trace = [p \in Procs |-> <<>>]
    /\ sm = IdleStream

\* const openai = createOpenAI(options)
Create(c, options) ==
    /\ ~cl[c].constructed
    /\ cl' = [cl EXCEPT ![c] = createOpenAI(options, env)]
    /\ UNCHANGED <<sm, mock, env, heap, inv, trace>>

\* openai.baseURL = url
AssignBaseURL(c, url) ==
    /\ cl[c].constructed
    /\ cl' = [cl EXCEPT ![c] = SetBaseURL(@, url)]
    /\ UNCHANGED <<sm, mock, env, heap, inv, trace>>

URLClients == {Shared, "own1"}

NextURL ==
    \/ \E c \in URLClients, o \in ClientOptions : Create(c, o)
    \/ \E c \in URLClients, u \in URLs : AssignBaseURL(c, u)

SpecURL == InitURL /\ [][NextURL]_vars

\* one stream() call on a client of the class that has stream, whose
\* messages the caller set, without tools (as in src/test/stream.test.ts)
MaxThrowAt == 2

InitStream ==
    /\ mock = "small"
    /\ env = NoEnv
    /\ cl = [c \in ClientIds |->
               IF c = Shared
               THEN [createOpenAI([baseURL |-> <<"h">>, model |-> "gpt-4",
                                   apiKey |-> "test-key"], NoEnv)
                     EXCEPT !.messages = "m1", !.tools = <<>>,
                            !.hasStream = TRUE]
               ELSE [NewOpenAI EXCEPT !.hasStream = TRUE]]
    /\ heap = InitHeap
    /\ inv = [p \in Procs |-> IdleInv]
    /\ trace = [p \in Procs |-> <<>>]
    /\ sm = IdleStream

NextStream ==
    \/ \E prompt \in Prompts, t \in 0..MaxThrowAt : Stream(prompt, t)
    \/ \E resp \in StreamResponses : StreamFetched(resp)
    \/ \E n \in (1..MaxChunk) \cup {Len(sm.rest)} : ReadChunk(n)
    \/ ReadDone
    \/ ReadError

SpecStream == InitStream /\ [][NextStream]_vars

\* the three operations on clients of the class that has stream
\* (src/unnamed/part_004 238-478: chat, createOpenAI, generateText and
\* generateObject are those of src/src/fastai.ts word for word, the
\* requests carry `tools: null` for no tools), one after the other, each
\* started once the ones before it have failed on a rejected fetch,
\* against a transport that may reject any request
InitFail ==
    /\ mock = "failing"
    /\ env = NoEnv
    /\ \E tools \in {<<>>, <<WeatherTool>>} :
          cl = [c \in ClientIds |->
                  IF c = Shared
                  THEN [createOpenAI([baseURL |-> <<"h">>, model |-> "gpt-4",
                                      apiKey |-> "test-key"], NoEnv)
                        EXCEPT !.messages = "m1", !.tools = tools,
                               !.hasStream = TRUE]
                  ELSE [NewOpenAI EXCEPT !.hasStream = TRUE]]
    /\ heap = InitHeap
    /\ inv = [p \in Procs |-> IdleInv]
    /\ trace = [p \in Procs |-> <<>>]
    /\ sm = IdleStream

\* the invocation has not been made, or has failed on a rejected fetch
IdleOrRejected(p) ==
    inv[p].pc = "idle" \/ inv[p].error = "fetch rejected"

NextFail ==
    \/ \E o \in TextOptions :
          /\ o.messages = "m1" /\ inv[2].pc = "idle" /\ sm.pc = "idle"
          /\ generateText(1, o)
    \/ \E o \in ObjectOptions :
          /\ o.messages = "m2" /\ IdleOrRejected(1) /\ sm.pc = "idle"
          /\ generateObject(2, o)
    \/ \E p \in Procs : Fetched(p)
    \/ \E p \in Procs : Resumed(p)
    \/ \E p \in Procs : Executed(p)
    \/ \E p \in Procs : ExecuteRejected(p)
    \/ IdleOrRejected(1) /\ IdleOrRejected(2) /\ Stream("hi", 0)
    \/ \E resp \in StreamResponses :
          Len(resp.frames) <= FailFrames /\ StreamFetched(resp)
    \/ \E n \in (1..MaxChunk) \cup {Len(sm.rest)} : ReadChunk(n)
    \/ ReadDone
    \/ ReadError

SpecFail == InitFail /\ [][NextFail]_vars

\* one generateText against a server that stops asking for tools, with
\* responses that arrive and executes that complete
InitLive == mock = "failing" /\ InitCommon

NextLive ==
    \/ \E o \in TextOptions : o.messages = "m1" /\ generateText(1, o)
    \/ FetchedEventually(1)
    \/ Executed(1)

SpecLive ==
    /\ InitLive /\ [][NextLive]_vars
    /\ WF_vars(FetchedEventually(1))
    /\ WF_vars(Executed(1))

\* --------------------------------------------------- reading the traces
Positions(p, type) == {i \in 1..Len(trace[p]) : trace[p][i].type = type}
Count(p, type) == Cardinality(Positions(p, type))

\* the events of p after position r, of one type, in order
After(p, r, type) ==
    SelectSeq(SubSeq(trace[p], r + 1, Len(trace[p])), LAMBDA e : e.type = type)


Registered(tools, call) == \E i \in 1..Len(tools) : tools[i].name = call.name
ValidArguments(raw) ==
    JSONparse(raw).ok /\ SchemaParse(CitySchema, JSONparse(raw).value).ok

IsText(p) == inv[p].kind = "generateText"
IsObject(p) == inv[p].kind = "generateObject"

\* ----------------------------------------------------------------- C1
\* C1: when the first response carries no tool calls (absent or empty),
\* generateText has sent exactly one request and has returned that
\* response's content (a text, as ChatMessage.content is typed) unchanged.
C1_ToolFreeReturnsContent ==
    \A p \in Procs :
        (IsText(p) /\ Count(p, "response") >= 1
           /\ ToolFree(trace[p][First(Positions(p, "response"))].resp))
        => LET resp == trace[p][First(Positions(p, "response"))].resp IN
           /\ inv[p].pc = "returned"
           /\ Count(p, "request") = 1
           /\ Count(p, "response") = 1
           /\ resp.message.content # NULL => inv[p].text = resp.message.content

C1_Witness ==
    /\ IsText(1) /\ inv[1].pc = "returned" /\ inv[1].text = RawText
    /\ Count(1, "request") = 1
    /\ ToolFree(trace[1][First(Positions(1, "response"))].resp)

\* ----------------------------------------------------------------- C2
\* the tool-role messages a batch must produce, in the order of its calls
ToolMessages(tools, calls) ==
    [i \in 1..Len(calls) |->
        ChatMessage("tool", FindTool(tools, calls[i].name).tool.out, NoCalls,
                    calls[i].id)]

AllRunnable(tools, calls) ==
    \A i \in 1..Len(calls) :
        Registered(tools, calls[i]) /\ ValidArguments(calls[i].arguments)

IsPrefix(s, t) == Len(s) <= Len(t) /\ \A i \in 1..Len(s) : s[i] = t[i]

\* C2: after a response with N >= 1 calls, all of registered tools with
\* valid arguments, generateText appends the N tool-role messages in call
\* order (never more, never out of order), fails only if an execute
\* rejects, and sends its next request only once all N are in the history
\* it sends.
C2_ToolResultsInOrderBeforeNextRequest ==
    \A p \in Procs :
        (IsText(p) /\ Count(p, "response") >= 1) =>
          LET r == Last(Positions(p, "response"))
              resp == trace[p][r].resp
              tools == inv[p].options.tools
              expected == ToolMessages(tools, CallsOf(resp))
              N == Len(CallsOf(resp))
              pushed == After(p, r, "push")
              toolPushed == SubSeq(pushed, 2, Len(pushed))
              sent == After(p, r, "request")
          IN (HasCalls(resp) /\ AllRunnable(tools, CallsOf(resp))) =>
               /\ inv[p].pc \in {"execute", "fetch"}
                    \/ inv[p].error = "execute rejected"
               /\ Len(pushed) >= 1 /\ pushed[1].msg = resp.message
               /\ IsPrefix([i \in 1..Len(toolPushed) |-> toolPushed[i].msg],
                           expected)
               /\ Len(sent) <= 1
               /\ Len(sent) = 1 =>
                     /\ Len(toolPushed) = N
                     /\ Len(sent[1].messages) >= N + 1
                     /\ SubSeq(sent[1].messages, Len(sent[1].messages) - N + 1,
                               Len(sent[1].messages)) = expected
                     /\ sent[1].messages[Len(sent[1].messages) - N]
                           = resp.message
                     /\ trace[p][Len(trace[p])].type = "request"

C2_Witness ==
    /\ IsText(1) /\ inv[1].pc = "fetch" /\ Count(1, "request") = 2
    /\ Len(CallsOf(trace[1][Last(Positions(1, "response"))].resp)) = 2
    /\ Len(After(1, Last(Positions(1, "response")), "push")) = 3

\* ----------------------------------------------------------------- C3
\* C3: an observer given to generateText as options.onToolCall is notified
\* once per call of a batch, with the calls' names in server order, before
\* any execute of that batch.
C3_OptionObserverNotifiedPerCall ==
    \A p \in Procs :
        (IsText(p) /\ inv[p].options.onToolCall # NULL
           /\ Count(p, "response") >= 1
           /\ HasCalls(trace[p][Last(Positions(p, "response"))].resp))
        => LET r == Last(Positions(p, "response"))
               calls == CallsOf(trace[p][r].resp)
               notes == SelectSeq(After(p, r, "notify"),
                          LAMBDA e : e.observer = inv[p].options.onToolCall)
           IN /\ [i \in 1..Len(notes) |-> notes[i].name]
                   = [i \in 1..Len(calls) |-> calls[i].name]
              /\ \A i \in Positions(p, "notify"), j \in Positions(p, "execute") :
                     (i > r /\ j > r) => i < j

\* ----------------------------------------------------------------- C4
\* the first call of a batch that names no registered tool (0 if none)
FirstUnknown(tools, calls) ==
    LET U == {i \in 1..Len(calls) : ~Registered(tools, calls[i])} IN
    IF U = {} THEN 0 ELSE First(U)

\* C4 as stated: a response naming an unregistered tool makes generateText
\* fail (once the calls before it are done, no execute having rejected)
\* with the tool-not-found error naming that tool, and no request follows
\* the response.
C4_UnknownToolFailsNotFound ==
    \A p \in Procs :
        (IsText(p) /\ Count(p, "response") >= 1
           /\ HasCalls(trace[p][Last(Positions(p, "response"))].resp)
           /\ inv[p].pc # "execute"
           /\ inv[p].error # "execute rejected")
        => LET r == Last(Positions(p, "response"))
               calls == CallsOf(trace[p][r].resp)
               u == FirstUnknown(inv[p].options.tools, calls)
           IN u > 0 =>
                /\ inv[p].pc = "failed"
                /\ inv[p].error = "Tool not found"
                /\ inv[p].errorTool = calls[u].name
                /\ After(p, r, "request") = <<>>

\* C4 (amended): a response naming an unregistered tool is never followed
\* by a request; generateText fails, and when every call before the first
\* unregistered one has valid arguments and has been executed the failure
\* is the tool-not-found error naming that first unregistered tool.
C4_UnknownToolFails ==
    \A p \in Procs :
        (IsText(p) /\ Count(p, "response") >= 1
           /\ HasCalls(trace[p][Last(Positions(p, "response"))].resp))
        => LET r == Last(Positions(p, "response"))
               calls == CallsOf(trace[p][r].resp)
               tools == inv[p].options.tools
               u == FirstUnknown(tools, calls)
           IN u > 0 =>
                /\ After(p, r, "request") = <<>>
                /\ inv[p].pc \in {"execute", "failed"}
                /\ inv[p].pc = "execute" => inv[p].k < u
                /\ (inv[p].pc = "failed"
                      /\ inv[p].error # "execute rejected"
                      /\ \A i \in 1..(u - 1) : ValidArguments(calls[i].arguments))
                   => /\ inv[p].error = "Tool not found"
                      /\ inv[p].errorTool = calls[u].name
                      /\ Len(After(p, r, "execute")) = u - 1

C4_Witness ==
    /\ IsText(1) /\ inv[1].pc = "failed" /\ inv[1].error = "Tool not found"
    /\ inv[1].errorTool = "get_time"
    /\ inv[1].options.tools = <<WeatherTool>>
    /\ Count(1, "execute") = 1 /\ Count(1, "request") = 1

\* ----------------------------------------------------------------- C5
\* the first call of a batch named submit_object (0 if none)
FirstSubmit(calls) ==
    LET S == {i \in 1..Len(calls) : calls[i].name = "submit_object"} IN
    IF S = {} THEN 0 ELSE First(S)

\* C5: when the response carries a submit_object call, generateObject,
\* once it has ended, has returned the validated value of its arguments if they are JSON satisfying
\* the schema, and otherwise fails without an object; either way after one
\* request.
C5_SubmitObjectRoundTrip ==
    \A p \in Procs :
        (IsObject(p) /\ Finished(p) /\ Count(p, "response") >= 1
           /\ HasCalls(trace[p][First(Positions(p, "response"))].resp))
        => LET calls == CallsOf(trace[p][First(Positions(p, "response"))].resp)
               s == FirstSubmit(calls)
               json == JSONparse(calls[s].arguments)
               value == SchemaParse(inv[p].options.schema, json.value)
           IN s > 0 =>
                /\ Count(p, "request") = 1
                /\ IF json.ok /\ value.ok
                   THEN inv[p].pc = "returned" /\ inv[p].object = value.value
                   ELSE inv[p].pc = "failed"
\* ----------------------------------------------------------------- C7
Responded(p) ==
    [i \in 1..Count(p, "response") |-> After(p, 0, "response")[i].resp]

\* C7: a second generateText, called after the first has finished with the
\* same client, messages array and tools, and answered by the transport
\* exactly as the first was, has the same outcome and ends with a history
\* of the same length.
C7_SecondCallSameAsFirst ==
    \A p, q \in Procs :
        (/\ IsText(p) /\ IsText(q) /\ Finished(p) /\ Finished(q)
         /\ ~inv[p].after /\ inv[q].after
         /\ inv[p].options = inv[q].options
         /\ Responded(p) = Responded(q))
        => /\ inv[q].pc = inv[p].pc
           /\ inv[q].text = inv[p].text
           /\ inv[q].historyLen = inv[p].historyLen

\* ----------------------------------------------------------------- C9
\* C9: once generateText has returned or failed, the caller's messages
\* array is what it was when generateText was called.
C9_CallerMessagesUntouched ==
    \A p \in Procs :
        (IsText(p) /\ Finished(p)) =>
            heap[inv[p].options.messages] = inv[p].before

\* ---------------------------------------------------------------- C10
\* the tools an invocation advertises when it runs alone
OwnTools(p) ==
    IF IsObject(p) THEN <<SubmitObjectTool>> ELSE inv[p].options.tools

\* C10: of two invocations given different messages arrays, every request
\* carries its own invocation's history and tools, and every message an
\* invocation appends goes to its own history.
C10_InvocationsIsolated ==
    (inv[1].pc # "idle" /\ inv[2].pc # "idle"
       /\ inv[1].options.messages # inv[2].options.messages)
    => \A p \in Procs : \A i \in 1..Len(trace[p]) :
          LET e == trace[p][i] IN
          /\ e.type \in {"request", "push"} => e.arr = inv[p].options.messages
          /\ e.type = "request" =>
                e.tools = generateToolsJsonSchema(OwnTools(p))
\* ----------------------------------------------------------------- C8
\* C8 as stated: a client given a (non-empty) base URL and a client given
\* that base URL followed by one more slash have the same endpoint.
C8_TrailingSlashSameEndpoint ==
    \A c, d \in ClientIds :
        (cl[c].constructed /\ cl[d].constructed
           /\ cl[d].given # <<>>
           /\ cl[c].given = cl[d].given \o <<Slash>>)
        => cl[c].endpoint = cl[d].endpoint

\* C8 (amended): a client given a base URL that ends in exactly one slash
\* and a client given that base URL without the slash have the same
\* endpoint, base + "/chat/completions"; only one slash is removed.
C8_OneTrailingSlashSameEndpoint ==
    \A c, d \in ClientIds :
        (cl[c].constructed /\ cl[d].constructed
           /\ cl[c].given = cl[d].given \o <<Slash>>
           /\ cl[d].given # <<>>
           /\ cl[d].given[Len(cl[d].given)] # Slash)
        => /\ cl[c].endpoint = cl[d].endpoint
           /\ cl[c].endpoint = cl[d].given \o ChatCompletionsPath

C8_Witness ==
    /\ cl[Shared].constructed /\ cl["own1"].constructed
    /\ cl[Shared].given = <<"h", Slash>> /\ cl["own1"].given = <<"h">>
    /\ cl[Shared].endpoint = cl["own1"].endpoint
\* ----------------------------------------------------------------- C6
\* the frames up to the first [DONE] frame, and whether there is one
HasDone(frames) == \E i \in 1..Len(frames) : frames[i] = "done"
BeforeDone(frames) ==
    SubSeq(frames, 1, First({i \in 1..Len(frames) : frames[i] = "done"}) - 1)

\* the onMsg calls C6 expects for content frames followed by [DONE]
RECURSIVE Deltas(_)
Deltas(frames) ==
    IF frames = <<>> THEN <<>>
    ELSE (IF FrameContent(Head(frames)) # <<>>
          THEN <<[msg |-> FrameContent(Head(frames)), isStop |-> FALSE,
                  threw |-> FALSE]>>
          ELSE <<>>) \o Deltas(Tail(frames))
FinalCall == [msg |-> <<>>, isStop |-> TRUE, threw |-> FALSE]

\* C6: for a body of content frames followed by a [DONE] frame (and
\* whatever follows it), and an onMsg that does not throw, the onMsg calls
\* made so far are a prefix of: one (content, false) per non-empty content
\* delta in frame order, then ('', true); when stream has returned exactly
\* these calls have been made.
C6_DeltasThenFinalThenReturn ==
    (/\ sm.pc \in {"reading", "returned"}
     /\ sm.throwAt = 0
     /\ HasDone(sm.frames)
     /\ \A i \in 1..Len(BeforeDone(sm.frames)) :
            BeforeDone(sm.frames)[i] \in {"a", "e", "empty"})
    => LET expected == Append(Deltas(BeforeDone(sm.frames)), FinalCall) IN
       /\ IsPrefix(sm.log, expected)
       /\ sm.pc = "returned" => sm.log = expected
       /\ sm.log = expected => sm.pc = "returned"

\* ---------------------------------------------------------------- C11
\* the position of the last event of one type before position i (0 if none)
LastBefore(p, i, type) ==
    LET S == {j \in Positions(p, type) : j < i} IN
    IF S = {} THEN 0 ELSE Last(S)

\* the position of the last assistant message before position j of a
\* history (0 if none)
LastAssistantBefore(history, j) ==
    LET S == {i \in 1..(j - 1) : history[i].role = "assistant"} IN
    IF S = {} THEN 0 ELSE Last(S)

\* C11: every tool-role message generateText appends carries the id of the
\* call whose execute produced its content (the last execute before the
\* append), and in the history every tool-role message answers a call of
\* the most recent assistant message before it.
C11_ToolMessageAnswersItsCall ==
    \A p \in Procs : IsText(p) =>
        /\ \A i \in Positions(p, "push") :
              trace[p][i].msg.role = "tool" =>
                LET x == LastBefore(p, i, "execute") IN
                /\ x > 0
                /\ trace[p][i].msg.tool_call_id = trace[p][x].id
                /\ trace[p][i].msg.content = trace[p][x].tool.out
                /\ \A j \in Positions(p, "push") : ~(x < j /\ j < i)
        /\ LET history == heap[inv[p].options.messages] IN
           \A j \in 1..Len(history) :
              history[j].role = "tool" =>
                LET a == LastAssistantBefore(history, j) IN
                /\ a > 0
                /\ history[a].tool_calls.present
                /\ \E k \in 1..Len(history[a].tool_calls.calls) :
                      history[a].tool_calls.calls[k].id
                          = history[j].tool_call_id

C11_Witness ==
    /\ IsText(1) /\ Count(1, "execute") = 2
    /\ LET history == heap["m1"] IN
       /\ Len(history) = 4
       /\ history[3].role = "tool" /\ history[3].tool_call_id = "call_a"
       /\ history[4].role = "tool" /\ history[4].tool_call_id = "call_b"

\* ---------------------------------------------------------------- C12
\* C12: a response without choices[0].message makes generateText fail with
\* the no-message error at once: it is the last thing the invocation sees,
\* no request (and no append or execute) follows it.
C12_NoMessageFailsWithoutRetry ==
    \A p \in Procs : IsText(p) =>
        \A r \in Positions(p, "response") :
            trace[p][r].resp.kind = "nomessage" =>
                /\ inv[p].pc = "failed"
                /\ inv[p].error = "No assistant message returned"
                /\ r = Len(trace[p])
                /\ Count(p, "request") = Count(p, "response")

C12_Witness ==
    /\ IsText(1) /\ inv[1].pc = "failed"
    /\ inv[1].error = "No assistant message returned"
    /\ Count(1, "request") = 2 /\ Count(1, "execute") = 1
    /\ trace[1][Len(trace[1])].type = "response"

\* ---------------------------------------------------------------- C13
\* the first call of a batch that cannot run (0 if all can): its tool is
\* not registered, or its arguments are not JSON satisfying the schema
FirstNotRunnable(tools, calls) ==
    LET B == {i \in 1..Len(calls) :
                ~(Registered(tools, calls[i])
                    /\ ValidArguments(calls[i].arguments))} IN
    IF B = {} THEN 0 ELSE First(B)

\* C13: when the first call of a batch that cannot run names a registered
\* tool and has arguments that are not JSON or do not satisfy the schema,
\* generateText fails with that error (SyntaxError or ZodError) once the
\* calls before it are done: execute is invoked and a tool message is
\* appended for the calls before it only, and no request follows.
C13_InvalidArgumentsFail ==
    \A p \in Procs :
        (IsText(p) /\ Count(p, "response") >= 1
           /\ HasCalls(trace[p][Last(Positions(p, "response"))].resp))
        => LET r == Last(Positions(p, "response"))
               calls == CallsOf(trace[p][r].resp)
               tools == inv[p].options.tools
               b == FirstNotRunnable(tools, calls)
               executed == After(p, r, "execute")
               pushed == After(p, r, "push")
           IN (b > 0 /\ Registered(tools, calls[b])) =>
                /\ After(p, r, "request") = <<>>
                /\ Len(executed) <= b - 1
                /\ Len(pushed) <= b
                /\ \A i \in 1..Len(executed) : executed[i].id = calls[i].id
                /\ inv[p].pc \in {"execute", "failed"}
                /\ (inv[p].pc = "failed" /\ inv[p].error # "execute rejected")
                   => /\ inv[p].error =
                            IF JSONparse(calls[b].arguments).ok
                            THEN "ZodError" ELSE "SyntaxError"
                      /\ Len(executed) = b - 1
                      /\ Len(pushed) = b

C13_Witness ==
    /\ IsText(1) /\ inv[1].pc = "failed" /\ inv[1].error = "ZodError"
    /\ Count(1, "execute") = 1 /\ Count(1, "request") = 1
    /\ Len(heap["m1"]) = 3 /\ heap["m1"][3].role = "tool"
    /\ Len(CallsOf(trace[1][Last(Positions(1, "response"))].resp)) = 2

\* ---------------------------------------------------------------- C14
\* C14: generateObject sends exactly one request: as soon as the response
\* to that request has arrived, whatever it is, chat has ended (its result
\* is being parsed, or generateObject has returned or failed), and it has
\* not ended before.
C14_ObjectSendsOneRequest ==
    \A p \in Procs : IsObject(p) =>
        /\ Count(p, "request") = 1
        /\ Count(p, "response") <= 1
        /\ Count(p, "response") = 1 <=> (inv[p].pc = "resolved" \/ Finished(p))

C14_Witness ==
    /\ IsObject(1) /\ inv[1].pc = "failed" /\ Count(1, "request") = 1
    /\ LET resp == trace[1][First(Positions(1, "response"))].resp IN
       /\ HasCalls(resp)
       /\ CallsOf(resp)[1].name = "submit_object"
       /\ CallsOf(resp)[1].arguments = RawFive

\* ---------------------------------------------------------------- C15
\* C15: when the response carries a message without a submit_object call,
\* generateObject, once it has ended, has returned the validated value of the message's content if
\* the content is JSON satisfying the schema, and otherwise (content empty,
\* absent, not JSON or not valid) fails with the
\* model-did-not-return-a-structured-object error.
C15_FallsBackToContent ==
    \A p \in Procs :
        (IsObject(p) /\ Finished(p) /\ Count(p, "response") >= 1
           /\ trace[p][First(Positions(p, "response"))].resp.kind = "message")
        => LET resp == trace[p][First(Positions(p, "response"))].resp
               content == resp.message.content
               noSubmit == ~HasCalls(resp) \/ FirstSubmit(CallsOf(resp)) = 0
               good == /\ content # NULL
                       /\ JSONparse(content).ok
                       /\ SchemaParse(inv[p].options.schema,
                                      JSONparse(content).value).ok
           IN noSubmit =>
                IF good
                THEN /\ inv[p].pc = "returned"
                     /\ inv[p].object =
                          SchemaParse(inv[p].options.schema,
                                      JSONparse(content).value).value
                ELSE /\ inv[p].pc = "failed"
                     /\ inv[p].error = "Model did not return a structured object"

\* ---------------------------------------------------------------- C16
\* C16: during generateObject no execute is invoked: none has been, and the
\* invocation is never waiting for one.
C16_SubmitObjectNeverExecuted ==
    \A p \in Procs : IsObject(p) =>
        /\ Count(p, "execute") = 0
        /\ inv[p].pc # "execute"

C16_Witness ==
    /\ IsObject(1) /\ inv[1].pc = "returned"
    /\ inv[1].object = [city |-> JSONString("Paris")]
    /\ LET resp == trace[1][First(Positions(1, "response"))].resp IN
       /\ HasCalls(resp)
       /\ CallsOf(resp)[1] = ToolCall(1, "submit_object", RawParis)
    /\ Count(1, "execute") = 0

\* ---------------------------------------------------------------- C17
\* C17: every request generateObject sends starts with a system message,
\* and no user message comes before a system message in it.
C17_SystemBeforeUser ==
    \A p \in Procs : IsObject(p) =>
        \A r \in Positions(p, "request") :
            LET sent == trace[p][r].messages IN
            /\ Len(sent) >= 2
            /\ sent[1].role = "system"
            /\ \A i, j \in 1..Len(sent) :
                  (sent[i].role = "system" /\ sent[j].role = "user") => i < j

\* ---------------------------------------------------------------- C18
\* C18: a request of generateText made with no tools, and a request of
\* stream made by a client without tools, never carries `tools: []`.
C18_NoToolsNotAnEmptyList ==
    /\ \A p \in Procs : IsText(p) =>
          \A r \in Positions(p, "request") :
              cl[inv[p].this].tools = <<>> => trace[p][r].tools # <<>>
    /\ (sm.request # <<>> /\ cl[Shared].tools = <<>>)
          => sm.request[1].tools.null

\* ---------------------------------------------------------------- C19
\* C19: what generateText returns is a text, never null or undefined; it
\* is the empty string when the last assistant message has null, absent or
\* empty content.
C19_ResultIsAlwaysText ==
    \A p \in Procs :
        (IsText(p) /\ inv[p].pc = "returned") =>
            LET resp == trace[p][Last(Positions(p, "response"))].resp IN
            /\ inv[p].text # NULL
            /\ resp.message.content \in {NULL, RawEmpty} => inv[p].text = ""

C19_Witness ==
    /\ IsText(1) /\ inv[1].pc = "returned" /\ inv[1].text = ""
    /\ Count(1, "request") = 2
    /\ trace[1][Last(Positions(1, "response"))].resp.message.content = NULL

\* ---------------------------------------------------------------- C20
\* C20: once stream has acquired the reader, the reader is locked exactly
\* while stream is still reading: it has been released when stream has
\* returned (end of the body, [DONE]) or failed (read error, onMsg threw).
C20_ReaderReleasedOnEveryExit ==
    sm.acquired => (sm.locked <=> sm.pc = "reading")

C20_Witness ==
    /\ sm.acquired /\ sm.pc = "failed" /\ sm.error = "onMsg threw"
    /\ ~sm.locked
    /\ sm.log # <<>> /\ sm.log[Len(sm.log)].isStop

\* ---------------------------------------------------------------- C21
\* C21: an onMsg call that throws ends stream: stream has failed with that
\* exception and has made no onMsg call after it, whether the call was for
\* a delta or the final one.
C21_CallbackExceptionPropagates ==
    \A i \in 1..Len(sm.log) :
        sm.log[i].threw =>
            /\ i = Len(sm.log)
            /\ sm.pc = "failed"
            /\ sm.error = "onMsg threw"

\* ---------------------------------------------------------------- C22
\* C22: for a body that starts with a malformed frame, goes on with
\* content frames (and more malformed ones) and has a [DONE] frame, and an
\* onMsg that does not throw, stream does not fail on a malformed frame
\* and makes no onMsg call for it: the calls made are a prefix of one
\* (content, false) per non-empty content frame, in order, then ('', true),
\* and stream returns after exactly these.
C22_MalformedFrameSkipped ==
    (/\ sm.pc \in {"reading", "returned", "failed"}
     /\ sm.acquired /\ sm.error # "read error"
     /\ sm.throwAt = 0
     /\ HasDone(sm.frames)
     /\ sm.frames[1] = "malformed")
    => LET expected == Append(Deltas(BeforeDone(sm.frames)), FinalCall) IN
       /\ sm.pc # "failed"
       /\ IsPrefix(sm.log, expected)
       /\ sm.pc = "returned" <=> sm.log = expected

\* ---------------------------------------------------------------- C23
\* C23: when the response to stream's request is not ok or has no body,
\* stream has failed (with the HTTP error, or the null-body error), no
\* onMsg call has been made and no reader has been acquired.
C23_BadResponseFailsBeforeReading ==
    sm.fetched \in {"not ok", "no body"} =>
        /\ sm.pc = "failed"
        /\ sm.error = IF sm.fetched = "not ok" THEN "HTTP error"
                      ELSE "Response body is null"
        /\ sm.log = <<>>
        /\ ~sm.acquired /\ ~sm.locked

C23_Witness ==
    /\ sm.fetched = "no body" /\ sm.pc = "failed"
    /\ sm.error = "Response body is null" /\ sm.log = <<>> /\ ~sm.acquired

\* ---------------------------------------------------------------- C24
\* the onMsg calls made with isStop = true
Finals(log) == {i \in 1..Len(log) : log[i].isStop}

\* a text without its white space: the trimmed form of a text that has
\* white space at its ends only, as the tails of the bodies have
Stripped(text) == SelectSeq(text, LAMBDA c : c \notin {Space, LF})

\* C24: for a body without a [DONE] frame that has been read to its end,
\* the buffered text is the text after the last line feed; if its trimmed
\* form is not empty stream has made exactly one final call, the last of
\* its onMsg calls, onMsg(trimmed, true), and has returned (or failed with
\* the exception of that call); if it is empty stream has made no final
\* call and has returned. No final call is made before the end.
C24_BufferedTextEmittedOnce ==
    (sm.acquired /\ sm.error # "read error" /\ ~HasDone(sm.frames)) =>
        LET text == Stripped(sm.tail) IN
        /\ sm.pc = "reading" => Finals(sm.log) = {}
        /\ sm.pc # "reading" =>
              /\ sm.buffer = sm.tail
              /\ IF text # <<>>
                 THEN /\ Finals(sm.log) = {Len(sm.log)}
                      /\ sm.log[Len(sm.log)].msg = text
                      /\ sm.pc = "returned" <=> ~sm.log[Len(sm.log)].threw
                 ELSE /\ Finals(sm.log) = {}
                      /\ sm.pc = "returned"

C24_Witness ==
    /\ sm.pc = "returned" /\ ~HasDone(sm.frames) /\ Len(sm.frames) = 2
    /\ sm.tail = <<Space, "a", Space>>
    /\ Len(sm.log) = 3
    /\ sm.log[3] = [msg |-> <<"a">>, isStop |-> TRUE, threw |-> FALSE]

\* ---------------------------------------------------------------- C25
\* C25: from the moment stream has sent its request, the request's
\* messages are the history the client had before the call followed by
\* the prompt as a user message, and so is the client's history.
C25_PromptAppendedBeforeRequest ==
    sm.pc # "idle" =>
        /\ Len(sm.request) = 1
        /\ sm.request[1].messages
              = Append(InitHeap[cl[Shared].messages], UserMsg(sm.prompt))
        /\ heap[cl[Shared].messages] = sm.request[1].messages
        /\ sm.request[1].stream

C25_Witness ==
    /\ sm.pc = "returned" /\ sm.prompt = "hi"
    /\ Len(sm.request[1].messages) = 2
    /\ sm.request[1].messages[2] = UserMsg("hi")
    /\ sm.log # <<>>

\* ---------------------------------------------------------------- C27
\* C27: no constructed client has an empty API key, and no request is sent
\* with one.
C27_NoClientWithoutApiKey ==
    /\ \A c \in ClientIds : cl[c].constructed => cl[c].apiKey # ""
    /\ \A p \in Procs : \A r \in Positions(p, "request") :
          trace[p][r].apiKey # ""

\* ---------------------------------------------------------------- C28
\* the tool declared last under a name
LastNamed(tools, name) ==
    tools[Last({i \in 1..Len(tools) : tools[i].name = name})]

\* C28: every execute generateText invokes is of the tool declared last
\* under the call's name.
C28_LaterToolShadowsEarlier ==
    \A p \in Procs : IsText(p) =>
        \A x \in Positions(p, "execute") :
            trace[p][x].tool
                = LastNamed(inv[p].options.tools, trace[p][x].tool.name)

\* ---------------------------------------------------------------- C30
\* C30: within a batch the executes are invoked one at a time, for the
\* calls in their order and once each: when an execute is invoked every
\* execute before it has been answered by its tool message, at most one
\* execute is unanswered (the one in flight, or one that rejected), and
\* the next request is sent when every call has been executed and
\* answered.
C30_ExecutesAreSequential ==
    \A p \in Procs :
        (IsText(p) /\ Count(p, "response") >= 1
           /\ HasCalls(trace[p][Last(Positions(p, "response"))].resp))
        => LET r == Last(Positions(p, "response"))
               calls == CallsOf(trace[p][r].resp)
               ex == {j \in Positions(p, "execute") : j > r}
               tp == {j \in Positions(p, "push") :
                        j > r /\ trace[p][j].msg.role = "tool"}
               executed == After(p, r, "execute")
               inFlight == Cardinality(ex) - Cardinality(tp)
           IN /\ inFlight \in {0, 1}
              /\ inv[p].pc = "execute" => inFlight = 1
              /\ inFlight = 1 =>
                    inv[p].pc = "execute" \/ inv[p].error = "execute rejected"
              /\ Len(executed) <= Len(calls)
              /\ \A i \in 1..Len(executed) : executed[i].id = calls[i].id
              /\ \A j \in ex :
                    Cardinality({i \in tp : i < j})
                        = Cardinality({i \in ex : i < j})
              /\ After(p, r, "request") # <<>> =>
                    /\ Cardinality(ex) = Len(calls)
                    /\ Cardinality(tp) = Len(calls)

C30_Witness ==
    /\ IsText(1) /\ inv[1].pc = "execute" /\ inv[1].k = 2
    /\ Count(1, "execute") = 2
    /\ Len(heap["m1"]) = 3 /\ heap["m1"][3].role = "tool"

\* ---------------------------------------------------------------- C26
\* C26: a rejected fetch is the last thing generateText and generateObject
\* see: they have failed with that rejection and have sent no request
\* after it; stream has failed with it after its one request, without any
\* onMsg call and without a reader.
C26_RejectedFetchIsNotRetried ==
    /\ \A p \in Procs : \A r \in Positions(p, "response") :
          trace[p][r].resp.kind = "reject" =>
              /\ inv[p].pc = "failed"
              /\ inv[p].error = "fetch rejected"
              /\ r = Len(trace[p])
              /\ Count(p, "request") = Count(p, "response")
              /\ IsObject(p) => Count(p, "request") = 1
    /\ sm.fetched = "reject" =>
          /\ sm.pc = "failed" /\ sm.error = "fetch rejected"
          /\ Len(sm.request) = 1
          /\ sm.log = <<>> /\ ~sm.acquired

C26_Witness ==
    /\ IsText(1) /\ inv[1].error = "fetch rejected"
    /\ Count(1, "request") = 2 /\ Count(1, "execute") = 1
    /\ IsObject(2) /\ inv[2].error = "fetch rejected"
    /\ sm.fetched = "reject" /\ sm.pc = "failed"

\* ---------------------------------------------------------------- C29
\* C29: generateText has returned exactly when its last response carries a
\* message without tool calls; after a response with tool calls it is
\* executing, has sent the next request, or has failed with an error;
\* and, the server ceasing to ask for tools and the executes completing,
\* a generateText that has been called eventually returns or fails.
C29_LoopsUntilToolFree ==
    /\ [](\A p \in Procs :
            (IsText(p) /\ Count(p, "response") >= 1) =>
                LET r == Last(Positions(p, "response"))
                    resp == trace[p][r].resp
                IN /\ inv[p].pc = "returned" <=> ToolFree(resp)
                   /\ HasCalls(resp) =>
                        /\ inv[p].pc \in {"execute", "fetch", "failed"}
                        /\ inv[p].pc = "failed" => inv[p].error # NULL
                        /\ inv[p].pc = "fetch" =>
                              /\ Len(After(p, r, "request")) = 1
                              /\ Len(After(p, r, "execute"))
                                    = Len(CallsOf(resp))
                   /\ Count(p, "request") <= Count(p, "response") + 1)
    /\ (inv[1].pc \in {"fetch", "execute"})
          ~> (inv[1].pc \in {"returned", "failed"})

C29_Witness ==
    /\ IsText(1) /\ inv[1].pc = "returned"
    /\ Count(1, "request") = MaxRequests
    /\ Count(1, "execute") = MaxRequests - 1

\* ---------------------------------------------------------------- C31
\* C31: of two consecutive requests of generateText, the second carries
\* the messages of the first, then the assistant message of the response
\* to the first as it was received, then the tool messages of its calls
\* in order; and the history always starts with what the last request
\* carried and with what the caller passed.
C31_HistoryAppendOnlyAndResent ==
    \A p \in Procs : IsText(p) =>
        /\ \A i, j \in Positions(p, "request") :
              (i < j /\ \A k \in Positions(p, "request") : ~(i < k /\ k < j))
              => LET r == First({k \in Positions(p, "response") : k > i})
                     resp == trace[p][r].resp
                 IN /\ r < j
                    /\ HasCalls(resp)
                    /\ trace[p][j].messages
                          = trace[p][i].messages \o <<resp.message>>
                              \o ToolMessages(inv[p].options.tools,
                                              CallsOf(resp))
        /\ IsPrefix(inv[p].before, heap[inv[p].options.messages])
        /\ \A i \in Positions(p, "request") :
              /\ IsPrefix(inv[p].before, trace[p][i].messages)
              /\ IsPrefix(trace[p][i].messages, heap[inv[p].options.messages])

C31_Witness ==
    /\ IsText(1) /\ Count(1, "request") = 2
    /\ Len(trace[1][Last(Positions(1, "request"))].messages) = 4
    /\ trace[1][Last(Positions(1, "request"))].messages[2].role = "assistant"
    /\ trace[1][Last(Positions(1, "request"))].messages[4].tool_call_id
          = "call_b"

\* ---------------------------------------------------------------- C32
\* C32: when the response carries several tool calls and one named
\* submit_object that is not the first of them, with arguments that are
\* JSON satisfying the schema, generateObject, once it has ended, has
\* returned the validated value of those arguments.
C32_SubmitObjectAnywhere ==
    \A p \in Procs :
        (IsObject(p) /\ Finished(p) /\ Count(p, "response") >= 1
           /\ HasCalls(trace[p][First(Positions(p, "response"))].resp))
        => LET calls == CallsOf(trace[p][First(Positions(p, "response"))].resp)
               s == FirstSubmit(calls)
           IN (s > 1 /\ ValidArguments(calls[s].arguments)) =>
                /\ inv[p].pc = "returned"
                /\ inv[p].object =
                      SchemaParse(inv[p].options.schema,
                                  JSONparse(calls[s].arguments).value).value

\* ---------------------------------------------------------------- C33
\* the observer of an invocation when its last response with tool calls
\* arrived: the one passed in the options, or else the one chat found on
\* the client at that moment
ObserverOf(p) ==
    IF inv[p].options.onToolCall # NULL THEN inv[p].options.onToolCall
    ELSE inv[p].observer

\* generateText has failed with the tool-not-found error on call k of the
\* N of the last response, the call the loop had come to, which names no
\* tool of the list find read: the calls before k have been executed, each
\* by a tool of its name, and answered by their tool messages, in order,
\* no other call has been executed, and the observer obs, if there is one,
\* has been notified of the names of all N calls, in order
PartialProgress(p, obs) ==
    LET r == Last(Positions(p, "response"))
        calls == CallsOf(trace[p][r].resp)
        k == inv[p].k
        executed == After(p, r, "execute")
        pushed == After(p, r, "push")
        notes == SelectSeq(After(p, r, "notify"), LAMBDA e : e.observer = obs)
    IN /\ k \in 1..Len(calls)
       /\ ~Registered(inv[p].lookup, calls[k])
       /\ inv[p].errorTool = calls[k].name
       /\ [i \in 1..Len(executed) |-> executed[i].id]
             = [i \in 1..(k - 1) |-> calls[i].id]
       /\ \A i \in 1..(k - 1) : executed[i].tool.name = calls[i].name
       /\ [i \in 2..Len(pushed) |-> pushed[i].msg]
             = [i \in 2..k |->
                  ChatMessage("tool", executed[i - 1].tool.out, NoCalls,
                              calls[i - 1].id)]
       /\ obs # NULL =>
             [i \in 1..Len(notes) |-> notes[i].name]
                 = [i \in 1..Len(calls) |-> calls[i].name]

\* C33: when generateText has failed with the tool-not-found error, on
\* call k of the N of the last response: the calls before k have been
\* executed and answered by their tool messages, in order, no other call
\* has been executed, and the observer, if one is set (in the options, or
\* on the client when the response arrived), has been notified of the
\* names of all N calls, in order.
C33_PartialProgressOnUnknownTool ==
    \A p \in Procs :
        (IsText(p) /\ inv[p].pc = "failed" /\ inv[p].error = "Tool not found")
        => PartialProgress(p, ObserverOf(p))

\* the same with the observer chat found on the client when the response
\* arrived, whatever the options say and whatever is assigned to the
\* client's field before or after
ClientObserverPartialProgress ==
    \A p \in Procs :
        (IsText(p) /\ inv[p].pc = "failed" /\ inv[p].error = "Tool not found")
        => PartialProgress(p, inv[p].observer)

\* the failure of C33 on a client whose observer was assigned while the
\* first tool was executing, and so after the notifications were due
ObserverAssignedLate ==
    /\ IsText(1) /\ inv[1].pc = "failed" /\ inv[1].error = "Tool not found"
    /\ Count(1, "execute") = 1
    /\ inv[1].observer = NULL
    /\ cl[inv[1].this].onToolCall = "clientObserver"

\* ---------------------------------------------------------------- C34
\* the onMsg calls stream makes when the whole body arrives in one chunk:
\* one pass over the complete lines, then the final call for the buffered
\* text when the read reports the end
SingleChunkLog(body, throwAt) ==
    LET lines == Split(Decode(body))
        done == ProcessLines(SubSeq(lines, 1, Len(lines) - 1), 1, <<>>,
                             throwAt)
        text == Trim(lines[Len(lines)])
    IN IF done.exit = "next" /\ text # <<>>
       THEN OnMsg(done.log, text, TRUE, throwAt)
       ELSE done.log

\* C34: however the bytes of the body are cut into chunks, the onMsg
\* calls made so far are a prefix of the calls made when the same bytes
\* arrive in one chunk, and when stream has ended (no read having failed)
\* they are exactly those calls.
C34_ChunkingDoesNotChangeCalls ==
    (sm.acquired /\ sm.error # "read error") =>
        LET single == SingleChunkLog(Body(sm.frames) \o sm.tail, sm.throwAt)
        IN /\ IsPrefix(sm.log, single)
           /\ sm.pc # "reading" => sm.log = single

\* ---------------------------------------------------------------- C35
\* C35: when the response to generateObject's request has submit_object
\* as its first tool call, so that its arguments are what chat returns,
\* chat has ended and the caller's array, which is the client's,
\* is what the request carried followed by the assistant message of the
\* response: it ends with that message, whose calls no tool message
\* answers.
C35_ObjectLeavesCallUnanswered ==
    \A p \in Procs :
        (IsObject(p) /\ Count(p, "response") >= 1
           /\ HasCalls(trace[p][First(Positions(p, "response"))].resp)
           /\ CallsOf(trace[p][First(Positions(p, "response"))].resp)[1].name
                 = "submit_object")
        => LET resp == trace[p][First(Positions(p, "response"))].resp
               sent == trace[p][First(Positions(p, "request"))].messages
               history == heap[inv[p].options.messages]
           IN /\ inv[p].pc = "resolved" \/ Finished(p)
              /\ cl[inv[p].this].messages = inv[p].options.messages
              /\ history = Append(sent, resp.message)
              /\ history[Len(history)].role = "assistant"
              /\ \A i \in 1..Len(history) : history[i].role # "tool"

C35_Witness ==
    /\ IsObject(1) /\ inv[1].pc = "returned"
    /\ inv[1].object = SchemaParse(CitySchema, JSONparse(RawParis).value).value
    /\ Len(heap["m1"]) = 3
    /\ heap["m1"][3].role = "assistant"
    /\ heap["m1"][3].tool_calls.calls[1].name = "submit_object"
    /\ heap[cl[inv[1].this].messages] = heap["m1"]

\* ---------------------------------------------------------------- C36
\* two generateObject calls, one after the other or overlapping, on arrays
\* that may hold a system message of the caller's, first or last
CallerSystem == ChatMessage("system", "be brief", NoCalls, NULL)
Histories ==
    {<<UserMsg("q1")>>, <<CallerSystem, UserMsg("q1")>>,
     <<UserMsg("q1"), CallerSystem>>}

InitPreamble ==
    /\ mock = "small"
    /\ sm = IdleStream
    /\ env = NoEnv
    /\ cl = [c \in ClientIds |->
               IF c = Shared
               THEN createOpenAI([baseURL |-> <<"h">>, model |-> "gpt-4",
                                  apiKey |-> "test-key"], NoEnv)
               ELSE NewOpenAI]
    /\ heap \in [ArrIds -> Histories]
    /\ inv = [p \in Procs |-> IdleInv]
    /\ trace = [p \in Procs |-> <<>>]

NextPreamble ==
    \/ \E p \in Procs, o \in ObjectOptions : generateObject(p, o)
    \/ \E p \in Procs : Fetched(p)
    \/ \E p \in Procs : Resumed(p)

SpecPreamble == InitPreamble /\ [][NextPreamble]_vars

\* the system messages of a history, in order
SystemMessages(history) == SelectSeq(history, LAMBDA m : m.role = "system")

\* C36: after any of the generateObject calls on an array, the system
\* messages of the array are those it had when that call was made if it
\* had one then (none added, none changed), and else the preamble alone;
\* so no array holds the preamble more than once, or holds it besides a
\* system message of the caller's.
C36_PreambleOnlyWithoutSystemMessage ==
    /\ \A p \in Procs : IsObject(p) =>
          LET had == SystemMessages(inv[p].before)
              has == SystemMessages(heap[inv[p].options.messages])
          IN IF had # <<>> THEN has = had ELSE has = <<SystemPreamble>>
    /\ \A a \in ArrIds :
          /\ Len(SelectSeq(heap[a], LAMBDA m : m = SystemPreamble)) <= 1
          /\ (\E i \in 1..Len(heap[a]) : heap[a][i] = CallerSystem)
                => SystemMessages(heap[a]) = <<CallerSystem>>

C36_Witness ==
    /\ IsObject(1) /\ IsObject(2) /\ Finished(1) /\ Finished(2)
    /\ inv[1].options.messages = "m1" /\ inv[2].options.messages = "m1"
    /\ SystemMessages(heap["m1"]) = <<SystemPreamble>>
    /\ SystemMessages(heap["m2"]) = <<CallerSystem>>
====
